---- MODULE Spec2Model ----
(***************************************************************************)
(* The capture-classify-render loop of main.py:                            *)
(* RealTimeEmotionDetector.execute and the overlay helpers it calls.       *)
(*                                                                         *)
(* One control position (pc) per statement of execute(); the camera, the   *)
(* keyboard and the classifier are the environment and answer              *)
(* nondeterministically.  An exception that leaves execute() is the        *)
(* control position "raised": execute() has no try/except/finally.         *)
(***************************************************************************)
EXTENDS Integers, Sequences, FiniteSets, TLC

(***************************************************************************)
(* Bounds of the model.                                                    *)
(***************************************************************************)
\* Loop iterations explored under Spec.
MaxTicks == 226
\* Frames of the scripted camera of the end-to-end scenario.
E2EFrames == 100
\* Loop iterations explored under SpecPeriods.
MaxPeriodTicks == 12
\* Largest coordinate, width and height handed to the overlay functions.
MaxCoord == 2

(***************************************************************************)
(* Program constants.                                                      *)
(***************************************************************************)
FRAME_WIDTH == 640
FRAME_HEIGHT == 490
\* frame_period_s * 100 for the default frame_period_s = 0.75
period_ticks == 75

\* Python's None, and a present value, as a set of at most one element.
None == {}
Some(v) == {v}

\* utils.image_classifier.NO_FACE_LABEL, and str.upper() on it.
NO_FACE_LABEL == "no face"
Upper(label) == IF label = "no face" THEN "NO FACE" ELSE label

\* frame_period_s as an exact fraction <<numerator, denominator>> of a second.
DefaultPeriod == <<3, 4>>
OneTickPeriod == <<1, 100>>

(***************************************************************************)
(* What the collaborators may answer.                                      *)
(***************************************************************************)
R0 == <<0, 0, 0, 0>>
R1 == <<10, 10, 50, 50>>
R2 == <<100, 20, 40, 40>>
L1 == Some(<< <<20, 20>> >>)
L2 == Some(<< <<110, 30>>, <<120, 30>> >>)

LabelResults == { <<>>, <<"happy">>, <<NO_FACE_LABEL>>, <<"happy", "sad", "angry">> }
RectResults == { <<>>, <<R1>>, <<R0>>, <<R1, R2>> }
LandmarkResults == { <<L1>>, <<None>>, <<L1, L2, None>> }

\* The stub classifier of the end-to-end scenario.
StubLabels == { <<"happy">> }
StubRects == { <<R1>> }
StubLandmarks == { <<L1>> }

VARIABLES
  pc,                    \* the statement execute() is at
  frame_period_s,        \* the argument of execute(), a fraction
  frame_cnt,
  predicted_labels,
  old_txt,
  rectangles,
  landmark_points_list,
  frame,                 \* the frame of this tick and what was drawn on it
  idx,                   \* position of the for loop in the zip
  tick,                  \* iterations of the while loop started so far
  calls,                 \* collaborator calls made in this tick, in order
  log,                   \* the records printed, each with its tick
  shown,                 \* the frame last passed to imshow
  displayed,             \* number of imshow calls that returned
  destroyed,             \* number of destroyAllWindows calls
  released,              \* number of vidCapture.release calls
  quit_seen,             \* waitKey has returned the quit key
  raised_by,             \* the call whose exception left execute(), or ""
  origin,                \* the tick that produced each of the three sequences
  last_reset,            \* the tick of the last frame_cnt = 0, 0 if none
  lastClassTick,         \* the tick of the last completed classification
  lastA,                 \* the annotation set that classification produced
  polls,                 \* number of waitKey calls
  overlay                \* a direct call of an overlay function and its draws

vars == <<pc, frame_period_s, frame_cnt, predicted_labels, old_txt, rectangles,
          landmark_points_list, frame, idx, tick, calls, log, shown, displayed,
          destroyed, released, quit_seen, raised_by, origin, last_reset,
          lastClassTick, lastA, polls, overlay>>

(***************************************************************************)
(* Geometry and the overlay renderer.  A draw is recorded as the cv2 call  *)
(* it makes: <<"rectangle", corner, corner>>, <<"circle", centre>>,        *)
(* <<"putText", text, position>>.                                          *)
(***************************************************************************)
BoundingBox(x, y, w, h) == [x |-> x, y |-> y, w |-> w, h |-> h]
bb_origin(bb) == <<bb.x, bb.y>>
\* a corner computed from the height instead of the width
top_right_h(bb) == bb.x + bb.h
top_right(bb) == bb.x + bb.w
bottom_left(bb) == bb.y + bb.h

draw_face_rectangle(bb) ==
  << <<"rectangle", bb_origin(bb), <<top_right(bb), bottom_left(bb)>> >> >>

\* absent landmarks drawn as the placeholder point (0, 0)
draw_landmark_points_placeholder(points) ==
  IF points = None THEN << <<"circle", <<0, 0>> >> >>
  ELSE LET ps == CHOOSE p \in points : TRUE
       IN [i \in 1..Len(ps) |-> <<"circle", ps[i]>>]

draw_landmark_points(points) ==
  IF points = None THEN <<>>
  ELSE LET ps == CHOOSE p \in points : TRUE
       IN [i \in 1..Len(ps) |-> <<"circle", ps[i]>>]

write_label(x, y, label) ==
  (IF label = NO_FACE_LABEL
     THEN << <<"putText", Upper(label), <<FRAME_WIDTH \div 2, FRAME_HEIGHT \div 2>> >> >>
     ELSE <<>>)
  \o << <<"putText", label, <<x + 10, y - 10>> >> >>

\* lines 94-96: the draws of one iteration of the for loop, in order
draw_entry_label_first(lbl, rectangle, lm_points) ==
  write_label(rectangle[1], rectangle[2], lbl)
  \o draw_face_rectangle(BoundingBox(rectangle[1], rectangle[2], rectangle[3],
                                     rectangle[4]))
  \o draw_landmark_points(lm_points)

draw_entry(lbl, rectangle, lm_points) ==
  draw_face_rectangle(BoundingBox(rectangle[1], rectangle[2], rectangle[3],
                                  rectangle[4]))
  \o draw_landmark_points(lm_points)
  \o write_label(rectangle[1], rectangle[2], lbl)

(***************************************************************************)
(* The loop's pure parts.                                                  *)
(***************************************************************************)
\* frame_cnt % (frame_period_s * 100) == 0, on the exact fraction
Due_every(cnt, p) == TRUE
Due(cnt, p) == (cnt * p[2]) % (p[1] * 100) = 0

\* zip(a, b, c): stops as soon as one of the three is exhausted
RECURSIVE zip_from(_, _, _, _)
zip_from(a, b, c, i) ==
  IF i > Len(a) \/ i > Len(b) \/ i > Len(c) THEN <<>>
  ELSE << <<a[i], b[i], c[i]>> >> \o zip_from(a, b, c, i + 1)

\* a pairing that lets a short landmark list pass as absent landmarks
zip_padded(a, b, c) ==
  [i \in 1..(IF Len(a) < Len(b) THEN Len(a) ELSE Len(b)) |->
     <<a[i], b[i], IF i <= Len(c) THEN c[i] ELSE None>>]
zip(a, b, c) == zip_from(a, b, c, 1)

\* old_txt != predicted_labels
labels_changed_always(old, labels) == TRUE
labels_changed(old, labels) == old /= Some(labels)

\* No overlay function has been called directly.
NoCall == [op |-> "none"]

\* The value of `frame` before the first read_frame().
NoFrame == [id |-> 0, ok |-> FALSE, drawn |-> <<>>, entries |-> <<>>]

(***************************************************************************)
(* execute(): the state at loop start.                                     *)
(***************************************************************************)
\* a loop start whose labels pair with the placeholder rectangle and landmark
InitWith_labelled(period) ==
  /\ pc = "waitKey"
  /\ frame_period_s = period
  /\ frame_cnt = 0
  /\ predicted_labels = <<NO_FACE_LABEL>>
  /\ old_txt = None
  /\ rectangles = <<R0>>
  /\ landmark_points_list = << Some(<< <<0, 0>> >>) >>
  /\ frame = NoFrame
  /\ idx = 1
  /\ tick = 0
  /\ calls = <<>>
  /\ log = <<>>
  /\ shown = NoFrame
  /\ displayed = 0
  /\ destroyed = 0
  /\ released = 0
  /\ quit_seen = FALSE
  /\ raised_by = ""
  /\ origin = [labels |-> 0, rectangles |-> 0, landmarks |-> 0]
  /\ last_reset = 0
  /\ lastClassTick = 0
  /\ lastA = <<>>
  /\ polls = 0
  /\ overlay = NoCall

InitWith(period) ==
  /\ pc = "waitKey"
  /\ frame_period_s = period
  /\ frame_cnt = 0
  /\ predicted_labels = <<>>         \* '' : a sequence with no element
  /\ old_txt = None
  /\ rectangles = <<R0>>
  /\ landmark_points_list = << Some(<< <<0, 0>> >>) >>
  /\ frame = NoFrame
  /\ idx = 1
  /\ tick = 0
  /\ calls = <<>>
  /\ log = <<>>
  /\ shown = NoFrame
  /\ displayed = 0
  /\ destroyed = 0
  /\ released = 0
  /\ quit_seen = FALSE
  /\ raised_by = ""
  /\ origin = [labels |-> 0, rectangles |-> 0, landmarks |-> 0]
  /\ last_reset = 0
  /\ lastClassTick = 0
  /\ lastA = <<>>
  /\ polls = 0
  /\ overlay = NoCall

Init == InitWith(DefaultPeriod)

(***************************************************************************)
(* while cv2.waitKey(delay=wait_key_delay) != ord(quit_key)                *)
(***************************************************************************)
WaitKeyQuit ==
  /\ pc = "waitKey"
  /\ pc' = "destroyAllWindows"
  /\ quit_seen' = TRUE
  /\ polls' = polls + 1
  /\ UNCHANGED <<overlay, frame_period_s, frame_cnt, predicted_labels, old_txt, rectangles,
                 landmark_points_list, frame, idx, tick, calls, log, shown,
                 displayed, destroyed, released, raised_by, origin, last_reset,
                 lastClassTick, lastA>>

\* any other key, or none within the delay: the body runs; frame_cnt += 1
WaitKeyPolled(limit, polled) ==
  /\ pc = "waitKey"
  /\ tick < limit
  /\ pc' = "read_frame"
  /\ frame_cnt' = frame_cnt + 1
  /\ tick' = tick + 1
  /\ calls' = <<>>
  /\ polls' = polls + polled
  /\ UNCHANGED <<overlay, frame_period_s, predicted_labels, old_txt, rectangles,
                 landmark_points_list, frame, idx, log, shown, displayed,
                 destroyed, released, quit_seen, raised_by, origin, last_reset,
                 lastClassTick, lastA>>

\* an iteration that polls the keyboard a second time
WaitKeyOther_twice(limit) == WaitKeyPolled(limit, 2)
WaitKeyOther(limit) == WaitKeyPolled(limit, 1)

\* frame = self.read_frame(): the frame, or None when the camera has none
ReadFrame(ok) ==
  /\ pc = "read_frame"
  /\ pc' = "due"
  /\ frame' = [id |-> tick, ok |-> ok, drawn |-> <<>>, entries |-> <<>>]
  /\ calls' = Append(calls, <<"read_frame", tick>>)
  /\ UNCHANGED <<overlay, polls, frame_period_s, frame_cnt, predicted_labels, old_txt, rectangles,
                 landmark_points_list, idx, tick, log, shown, displayed,
                 destroyed, released, quit_seen, raised_by, origin, last_reset,
                 lastClassTick, lastA>>

\* a loop that shows annotations on the due tick only
Decide_flicker ==
  /\ pc = "due"
  /\ IF Due(frame_cnt, frame_period_s)
       THEN /\ frame_cnt' = 0
            /\ last_reset' = tick
            /\ pc' = "transform_img"
            /\ idx' = idx
            /\ predicted_labels' = predicted_labels
       ELSE /\ pc' = "render"
            /\ idx' = 1
            /\ predicted_labels' = <<>>
            /\ UNCHANGED <<frame_cnt, last_reset>>
  /\ UNCHANGED <<overlay, polls, frame_period_s, old_txt, rectangles,
                 landmark_points_list, frame, tick, calls, log, shown, displayed,
                 destroyed, released, quit_seen, raised_by, origin,
                 lastClassTick, lastA>>

\* a due branch that leaves the counter running
Decide_noreset ==
  /\ pc = "due"
  /\ IF Due(frame_cnt, frame_period_s)
       THEN /\ last_reset' = tick
            /\ pc' = "transform_img"
            /\ idx' = idx
       ELSE /\ pc' = "render"
            /\ idx' = 1
            /\ UNCHANGED last_reset
  /\ UNCHANGED <<overlay, polls, frame_period_s, frame_cnt, predicted_labels,
                 old_txt, rectangles, landmark_points_list, frame, tick, calls,
                 log, shown, displayed, destroyed, released, quit_seen,
                 raised_by, origin, lastClassTick, lastA>>

\* if frame_cnt % (frame_period_s * 100) == 0: frame_cnt = 0
Decide ==
  /\ pc = "due"
  /\ IF Due(frame_cnt, frame_period_s)
       THEN /\ frame_cnt' = 0
            /\ last_reset' = tick
            /\ pc' = "transform_img"
            /\ idx' = idx
       ELSE /\ pc' = "render"
            /\ idx' = 1
            /\ UNCHANGED <<frame_cnt, last_reset>>
  /\ UNCHANGED <<overlay, polls, frame_period_s, predicted_labels, old_txt, rectangles,
                 landmark_points_list, frame, tick, calls, log, shown, displayed,
                 destroyed, released, quit_seen, raised_by, origin,
                 lastClassTick, lastA>>
(***************************************************************************)
(* The due branch: transform_img(frame), then the three classifier calls.  *)
(* cv2.cvtColor raises on a None image, so transform_img(None) raises      *)
(* before classify is called.                                              *)
(***************************************************************************)
TransformImg ==
  /\ pc = "transform_img"
  /\ calls' = Append(calls, <<"transform_img", frame.id>>)
  /\ IF frame.ok
       THEN pc' = "classify" /\ raised_by' = raised_by
       ELSE pc' = "raised" /\ raised_by' = "transform_img"
  /\ UNCHANGED <<overlay, polls, frame_period_s, frame_cnt, predicted_labels, old_txt, rectangles,
                 landmark_points_list, frame, idx, tick, log, shown, displayed,
                 destroyed, released, quit_seen, origin, last_reset,
                 lastClassTick, lastA>>

\* predicted_labels = self.classifier.classify(img=<the transformed image>)
Classify(labels) ==
  /\ pc = "classify"
  /\ pc' = "extract_face_rectangle"
  /\ calls' = Append(calls, <<"classify", "transformed", frame.id>>)
  /\ predicted_labels' = labels
  /\ origin' = [origin EXCEPT !.labels = tick]
  /\ UNCHANGED <<overlay, polls, frame_period_s, frame_cnt, old_txt, rectangles,
                 landmark_points_list, frame, idx, tick, log, shown, displayed,
                 destroyed, released, quit_seen, raised_by, last_reset,
                 lastClassTick, lastA>>

\* a classifier call that raises: nothing in execute() catches it
Raise(at, call) ==
  /\ pc = at
  /\ pc' = "raised"
  /\ raised_by' = call
  /\ calls' = Append(calls, <<call, "raised", frame.id>>)
  /\ UNCHANGED <<overlay, polls, frame_period_s, frame_cnt, predicted_labels, old_txt, rectangles,
                 landmark_points_list, frame, idx, tick, log, shown, displayed,
                 destroyed, released, quit_seen, origin, last_reset,
                 lastClassTick, lastA>>

\* the same failure, caught and the tick carried on with what is at hand
Caught(at, call) ==
  /\ pc = at
  /\ pc' = "render"
  /\ idx' = 1
  /\ calls' = Append(calls, <<call, "raised", frame.id>>)
  /\ UNCHANGED <<overlay, polls, frame_period_s, frame_cnt, predicted_labels, old_txt, rectangles,
                 landmark_points_list, frame, tick, log, shown, displayed,
                 destroyed, released, quit_seen, raised_by, origin, last_reset,
                 lastClassTick, lastA>>

ClassifyRaise_caught == Caught("classify", "classify")
ClassifyRaise == Raise("classify", "classify")

\* rectangles = self.classifier.extract_face_rectangle(img=frame)
ExtractFaceRectangle(rects) ==
  /\ pc = "extract_face_rectangle"
  /\ pc' = "extract_landmark_points"
  /\ calls' = Append(calls, <<"extract_face_rectangle", "frame", frame.id>>)
  /\ rectangles' = rects
  /\ origin' = [origin EXCEPT !.rectangles = tick]
  /\ UNCHANGED <<overlay, polls, frame_period_s, frame_cnt, predicted_labels, old_txt,
                 landmark_points_list, frame, idx, tick, log, shown, displayed,
                 destroyed, released, quit_seen, raised_by, last_reset,
                 lastClassTick, lastA>>

ExtractFaceRectangleRaise_caught ==
  Caught("extract_face_rectangle", "extract_face_rectangle")
ExtractFaceRectangleRaise ==
  Raise("extract_face_rectangle", "extract_face_rectangle")

\* landmark_points_list = self.classifier.extract_landmark_points(img=frame)
ExtractLandmarkPoints(lms) ==
  /\ pc = "extract_landmark_points"
  /\ pc' = "render"
  /\ idx' = 1
  /\ calls' = Append(calls, <<"extract_landmark_points", "frame", frame.id>>)
  /\ landmark_points_list' = lms
  /\ origin' = [origin EXCEPT !.landmarks = tick]
  /\ lastClassTick' = tick
  /\ lastA' = zip(predicted_labels, rectangles, lms)
  /\ UNCHANGED <<overlay, polls, frame_period_s, frame_cnt, predicted_labels, old_txt, rectangles,
                 frame, tick, log, shown, displayed, destroyed, released,
                 quit_seen, raised_by, last_reset>>

ExtractLandmarkPointsRaise ==
  Raise("extract_landmark_points", "extract_landmark_points")

(***************************************************************************)
(* for lbl, rectangle, lm_points in zip(predicted_labels, rectangles,      *)
(* landmark_points_list): one iteration.  cv2.rectangle raises on a None   *)
(* image, so the first draw of a tick without a frame raises.              *)
(***************************************************************************)
RenderEntry ==
  /\ pc = "render"
  /\ idx <= Len(zip(predicted_labels, rectangles, landmark_points_list))
  /\ LET entry == zip(predicted_labels, rectangles, landmark_points_list)[idx]
         lbl == entry[1]
         rectangle == entry[2]
         lm_points == entry[3]
     IN IF frame.ok
          THEN /\ frame' = [frame EXCEPT
                     !.drawn = @ \o draw_entry(lbl, rectangle, lm_points),
                     !.entries = Append(@, entry)]
               /\ IF labels_changed(old_txt, predicted_labels)
                    THEN /\ log' = Append(log, [tick |-> tick, labels |-> predicted_labels])
                         /\ old_txt' = Some(predicted_labels)
                    ELSE UNCHANGED <<log, old_txt>>
               /\ idx' = idx + 1
               /\ UNCHANGED <<pc, raised_by>>
          ELSE /\ pc' = "raised"
               /\ raised_by' = "draw_face_rectangle"
               /\ UNCHANGED <<frame, log, old_txt, idx>>
  /\ UNCHANGED <<overlay, polls, frame_period_s, frame_cnt, predicted_labels, rectangles,
                 landmark_points_list, tick, calls, shown, displayed, destroyed,
                 released, quit_seen, origin, last_reset, lastClassTick, lastA>>

\* the zip is exhausted
RenderDone ==
  /\ pc = "render"
  /\ idx > Len(zip(predicted_labels, rectangles, landmark_points_list))
  /\ pc' = "imshow"
  /\ UNCHANGED <<overlay, polls, frame_period_s, frame_cnt, predicted_labels, old_txt, rectangles,
                 landmark_points_list, frame, idx, tick, calls, log, shown,
                 displayed, destroyed, released, quit_seen, raised_by, origin,
                 last_reset, lastClassTick, lastA>>

\* cv2.imshow('Emotion Detection', frame): raises on a None image
ImshowWith(lenient) ==
  /\ pc = "imshow"
  /\ IF frame.ok \/ lenient
       THEN /\ pc' = "waitKey"
            /\ shown' = frame
            /\ displayed' = displayed + 1
            /\ raised_by' = raised_by
       ELSE /\ pc' = "raised"
            /\ raised_by' = "imshow"
            /\ UNCHANGED <<shown, displayed>>
  /\ UNCHANGED <<overlay, polls, frame_period_s, frame_cnt, predicted_labels, old_txt, rectangles,
                 landmark_points_list, frame, idx, tick, calls, log, destroyed,
                 released, quit_seen, origin, last_reset, lastClassTick, lastA>>

Imshow_lenient == ImshowWith(TRUE)
Imshow == ImshowWith(FALSE)

(***************************************************************************)
(* After the loop: cv2.destroyAllWindows(); self.vidCapture.release()      *)
(***************************************************************************)
DestroyAllWindows ==
  /\ pc = "destroyAllWindows"
  /\ pc' = "release"
  /\ destroyed' = destroyed + 1
  /\ UNCHANGED <<overlay, polls, frame_period_s, frame_cnt, predicted_labels, old_txt, rectangles,
                 landmark_points_list, frame, idx, tick, calls, log, shown,
                 displayed, released, quit_seen, raised_by, origin, last_reset,
                 lastClassTick, lastA>>

ReleaseWith(n) ==
  /\ pc = "release"
  /\ pc' = "done"
  /\ released' = released + n
  /\ UNCHANGED <<overlay, polls, frame_period_s, frame_cnt, predicted_labels, old_txt, rectangles,
                 landmark_points_list, frame, idx, tick, calls, log, shown,
                 displayed, destroyed, quit_seen, raised_by, origin, last_reset,
                 lastClassTick, lastA>>

Release_skipped == ReleaseWith(0)
Release == ReleaseWith(1)

(***************************************************************************)
(* The program as run by run_real_time_emotion_detector: execute() with    *)
(* its default arguments, any camera, any keyboard, any classifier.        *)
(***************************************************************************)
Next ==
  \/ WaitKeyQuit
  \/ WaitKeyOther(MaxTicks)
  \/ \E ok \in BOOLEAN : ReadFrame(ok)
  \/ Decide
  \/ TransformImg
  \/ \E labels \in LabelResults : Classify(labels)
  \/ ClassifyRaise
  \/ \E rects \in RectResults : ExtractFaceRectangle(rects)
  \/ ExtractFaceRectangleRaise
  \/ \E lms \in LandmarkResults : ExtractLandmarkPoints(lms)
  \/ ExtractLandmarkPointsRaise
  \/ RenderEntry
  \/ RenderDone
  \/ Imshow
  \/ DestroyAllWindows
  \/ Release

Spec == Init /\ [][Next]_vars

(***************************************************************************)
(* The end-to-end scenario: a period of one tick, a camera that yields     *)
(* E2EFrames frames, a stub classifier with one fixed answer.              *)
(***************************************************************************)
InitE2E == InitWith(OneTickPeriod)

NextE2E ==
  \/ WaitKeyQuit
  \/ WaitKeyOther(E2EFrames)
  \/ ReadFrame(TRUE)
  \/ Decide
  \/ TransformImg
  \/ \E labels \in StubLabels : Classify(labels)
  \/ \E rects \in StubRects : ExtractFaceRectangle(rects)
  \/ \E lms \in StubLandmarks : ExtractLandmarkPoints(lms)
  \/ RenderEntry
  \/ RenderDone
  \/ Imshow
  \/ DestroyAllWindows
  \/ Release

SpecE2E == InitE2E /\ [][NextE2E]_vars
(***************************************************************************)
(* Vocabulary of the properties.                                           *)
(***************************************************************************)
ClassifierOps == {"classify", "extract_face_rectangle", "extract_landmark_points"}

\* the classifier calls made so far in this tick, in order
ClassifierCalls == SelectSeq(calls, LAMBDA c : c[1] \in ClassifierOps)

\* a classifier call of this tick raised
ClassifierRaised == \E i \in 1..Len(calls) : calls[i][1] \in ClassifierOps /\ calls[i][2] = "raised"

\* the rectangles drawn on a frame, in order
Boxes(f) == SelectSeq(f.drawn, LAMBDA op : op[1] = "rectangle")

Min3(a, b, c) ==
  IF a <= b /\ a <= c THEN a ELSE IF b <= c THEN b ELSE c

\* the tick's decision and classification are over and the loop goes on
PastClassification ==
  tick > 0 /\ pc \in {"render", "imshow", "waitKey", "destroyAllWindows", "release", "done"}

\* the tick's decision is over
PastDecide == tick > 0 /\ pc \notin {"read_frame", "due"}

\* read_frame() returned None in this tick
CaptureFailed == frame.id > 0 /\ ~frame.ok

(***************************************************************************)
(* C1  Cadence.  With frame_period_s = 0.75 the classifier is invoked on   *)
(* the ticks that are multiples of 75 and on no other tick, and frame_cnt  *)
(* is set to 0 on those ticks and on no other tick.                        *)
(***************************************************************************)
Cadence ==
  /\ ClassifierCalls /= <<>> => tick % period_ticks = 0
  /\ last_reset % period_ticks = 0
  /\ lastClassTick % period_ticks = 0
  /\ PastDecide => (last_reset = tick <=> tick % period_ticks = 0)
  /\ PastDecide /\ tick % period_ticks = 0 => frame_cnt = 0
  /\ PastDecide /\ tick % period_ticks /= 0 => frame_cnt = tick % period_ticks
  /\ PastClassification =>
       /\ tick % period_ticks = 0 =>
            /\ lastClassTick = tick
            /\ Len(ClassifierCalls) = 3
       /\ tick % period_ticks /= 0 => lastClassTick < tick

CadenceWitness ==
  /\ tick = 3 * period_ticks
  /\ pc = "imshow"
  /\ lastClassTick = tick
  /\ last_reset = tick
  /\ frame_cnt = 0

(***************************************************************************)
(* C2  Staleness.  On the ticks N+1 .. N+period_ticks-1 after a            *)
(* classification on tick N that produced the annotation set A, no         *)
(* classifier call is made, the three sequences still pair to A, and the   *)
(* entries rendered onto the tick's frame are exactly A, in order.         *)
(***************************************************************************)
StaleTick ==
  lastClassTick > 0 /\ tick > lastClassTick /\ tick < lastClassTick + period_ticks

\* C2: a stale tick makes no classifier call and renders exactly lastA
Staleness ==
  StaleTick =>
    /\ ClassifierCalls = <<>>
    /\ zip(predicted_labels, rectangles, landmark_points_list) = lastA
    /\ pc = "render" => frame.id = tick /\ frame.entries = SubSeq(lastA, 1, idx - 1)
    /\ pc = "imshow" => frame.id = tick /\ frame.entries = lastA

StalenessWitness ==
  /\ pc = "imshow"
  /\ lastClassTick = period_ticks
  /\ tick = lastClassTick + period_ticks - 1
  /\ Len(lastA) = 2
  /\ frame.entries = lastA

(***************************************************************************)
(* C3  No cross-tick mixing.  Whenever the loop renders, and for every     *)
(* frame that carries a rendered entry, the labels, the rectangles and the *)
(* landmark sets in use were produced by one and the same tick.            *)
(***************************************************************************)
NoMixing ==
  (pc \in {"render", "imshow"} \/ frame.entries /= <<>>) =>
    /\ origin.labels = origin.rectangles
    /\ origin.labels = origin.landmarks

NoMixingWitness ==
  /\ pc = "imshow"
  /\ frame.entries /= <<>>
  /\ origin.labels = 2 * period_ticks
  /\ tick = origin.labels + 1

(***************************************************************************)
(* C4  Truncation.  The entries rendered in a tick are the first           *)
(* min(len(labels), len(rectangles), len(landmarks)) positions of the      *)
(* three sequences, paired index by index, one box each; sequences of      *)
(* different lengths raise nothing.                                        *)
(***************************************************************************)
Truncation ==
  /\ pc = "imshow" =>
       /\ Len(frame.entries) = Min3(Len(predicted_labels), Len(rectangles),
                                    Len(landmark_points_list))
       /\ Len(Boxes(frame)) = Len(frame.entries)
       /\ \A i \in 1..Len(frame.entries) :
            frame.entries[i] = <<predicted_labels[i], rectangles[i],
                                 landmark_points_list[i]>>
  /\ pc = "raised" => (CaptureFailed \/ ClassifierRaised)

TruncationWitness ==
  /\ pc = "imshow"
  /\ frame.ok
  /\ Len(predicted_labels) = 3
  /\ Len(rectangles) = 2
  /\ Len(landmark_points_list) = 3
  /\ Len(frame.entries) = 2
(***************************************************************************)
(* C5  Change-log.  A record is printed on the tick where the label        *)
(* collection comes to differ from the last logged one, an empty           *)
(* collection included, so that once a tick has rendered, the last logged  *)
(* labels are the current labels and the last record printed carries them. *)
(***************************************************************************)
ChangeLog ==
  (pc = "imshow" /\ lastClassTick > 0) =>
    /\ old_txt = Some(predicted_labels)
    /\ log /= <<>>
    /\ log[Len(log)].labels = predicted_labels

(***************************************************************************)
(* C6  Release on quit.  Once waitKey has returned the quit key the loop   *)
(* is over: destroyAllWindows and release are each called once, never      *)
(* twice, execute() cannot stop before both are called, and no frame is    *)
(* read, classified or displayed any more.  No poll follows a tick with a  *)
(* capture error, so the quit key is never seen right after one.           *)
(***************************************************************************)
QuitState ==
  /\ released <= 1
  /\ destroyed <= 1
  /\ quit_seen => pc \in {"destroyAllWindows", "release", "done"}
  /\ pc = "destroyAllWindows" => quit_seen /\ destroyed = 0 /\ released = 0
  /\ pc = "release" => quit_seen /\ destroyed = 1 /\ released = 0
  /\ pc = "done" => quit_seen /\ destroyed = 1 /\ released = 1
  /\ quit_seen /\ pc /= "done" => ENABLED Next
  \* the quit key is never seen after a tick whose frame was missing:
  \* that tick has ended the loop by an exception
  /\ quit_seen => ~CaptureFailed

QuitStep ==
  quit_seen => UNCHANGED <<tick, frame, calls, shown, displayed, predicted_labels,
                           rectangles, landmark_points_list, log>>

\* C6: after the quit key, one destroyAllWindows, one release, nothing else
ReleaseOnQuit == []QuitState /\ [][QuitStep]_vars

ReleaseOnQuitWitness ==
  /\ pc = "done"
  /\ quit_seen
  /\ released = 1
  /\ destroyed = 1
  /\ displayed > period_ticks

(***************************************************************************)
(* C7  Release on every exit path.  However execute() stops, by the quit   *)
(* key or by an exception of the camera or of the classifier, the capture  *)
(* device has been released once and the windows destroyed.                *)
(***************************************************************************)
ReleaseOnEveryExit ==
  pc \in {"done", "raised"} => released = 1 /\ destroyed = 1

(***************************************************************************)
(* C8  Capture failure is terminal.  In a tick whose read_frame() returned *)
(* None no classifier call is made, nothing is rendered, no frame is       *)
(* displayed, no further frame is read and the keyboard is not polled      *)
(* again: the tick ends in an exception.                                   *)
(***************************************************************************)
CaptureFailureState ==
  CaptureFailed =>
    /\ frame.id = tick
    /\ pc \in {"due", "transform_img", "render", "imshow", "raised"}
    /\ ClassifierCalls = <<>>
    /\ frame.entries = <<>>
    /\ shown.id < tick
    /\ pc = "raised" => ~ENABLED Next
    /\ pc /= "raised" => ENABLED Next

CaptureFailureStep ==
  CaptureFailed => UNCHANGED <<tick, frame, shown, displayed, predicted_labels,
                               rectangles, landmark_points_list>>

\* C8: a tick without a frame ends the loop and touches nothing
CaptureFailureTerminal == []CaptureFailureState /\ [][CaptureFailureStep]_vars

CaptureFailureWitness ==
  /\ CaptureFailed
  /\ pc = "raised"
  /\ raised_by = "imshow"
  /\ tick = period_ticks - 1

(***************************************************************************)
(* C9  Classifier failure is terminal.  When one of classify,              *)
(* extract_face_rectangle, extract_landmark_points raises, the exception   *)
(* leaves execute(): nothing is rendered on that tick's frame, the frame   *)
(* is not displayed, and no further step is taken.                         *)
(***************************************************************************)
ClassifierFailureTerminal ==
  ClassifierRaised =>
    /\ pc = "raised"
    /\ raised_by \in ClassifierOps
    /\ frame.entries = <<>>
    /\ frame.drawn = <<>>
    /\ shown.id < tick
    /\ displayed = tick - 1
    /\ ~ENABLED Next

ClassifierFailureWitness ==
  /\ ClassifierRaised
  /\ pc = "raised"
  /\ raised_by = "extract_landmark_points"
  /\ tick = 2 * period_ticks
  /\ lastA /= <<>>

(***************************************************************************)
(* C10  End to end.  With a period of one tick, a camera that yields       *)
(* frames and a classifier that always answers (["happy"],                 *)
(* [(10,10,50,50)], [[(20,20)]]), the classifier is invoked on every tick, *)
(* every tick renders one box from (10,10) to (60,60), and a single record *)
(* is printed, on tick 1.                                                  *)
(***************************************************************************)
EndToEnd ==
  /\ pc \in {"imshow", "waitKey"} /\ tick > 0 =>
       /\ Len(ClassifierCalls) = 3
       /\ lastClassTick = tick
       /\ Boxes(frame) = << <<"rectangle", <<10, 10>>, <<60, 60>> >> >>
       /\ log = << [tick |-> 1, labels |-> <<"happy">>] >>
  /\ pc = "waitKey" =>
       /\ displayed = tick
       /\ shown = frame
  /\ Len(log) <= 1
  /\ pc /= "raised"

EndToEndWitness ==
  /\ tick = 100
  /\ pc = "waitKey"
  /\ displayed = 100
  /\ Len(log) = 1
  /\ Len(Boxes(shown)) = 1
(***************************************************************************)
(* The overlay functions called directly, on any arguments.  The frame     *)
(* handed to write_label has the size the camera delivers: the size asked  *)
(* for in __init_video_capture, or another one when the camera does not    *)
(* honour the request (the results of vidCapture.set are not looked at).   *)
(***************************************************************************)
Coords == (0 - MaxCoord)..MaxCoord
Extents == 0..MaxCoord
FrameSizes == { <<FRAME_WIDTH, FRAME_HEIGHT>>, <<640, 480>> }
OverlayLabels == { NO_FACE_LABEL, "happy", "NO FACE" }

CallWriteLabel ==
  /\ \E x \in Coords, y \in Coords, label \in OverlayLabels, size \in FrameSizes :
       overlay' = [op |-> "write_label", x |-> x, y |-> y, label |-> label,
                   size |-> size, draws |-> write_label(x, y, label)]
  /\ UNCHANGED <<pc, frame_period_s, frame_cnt, predicted_labels, old_txt,
                 rectangles, landmark_points_list, frame, idx, tick, calls, log,
                 shown, displayed, destroyed, released, quit_seen, raised_by,
                 origin, last_reset, lastClassTick, lastA, polls>>

CallDrawFaceRectangle ==
  /\ \E x \in Coords, y \in Coords, w \in Extents, h \in Extents :
       LET bb == BoundingBox(x, y, w, h)
       IN overlay' = [op |-> "draw_face_rectangle", x |-> x, y |-> y, w |-> w,
                      h |-> h, bb |-> bb, draws |-> draw_face_rectangle(bb)]
  /\ UNCHANGED <<pc, frame_period_s, frame_cnt, predicted_labels, old_txt,
                 rectangles, landmark_points_list, frame, idx, tick, calls, log,
                 shown, displayed, destroyed, released, quit_seen, raised_by,
                 origin, last_reset, lastClassTick, lastA, polls>>

NextOverlay == CallWriteLabel \/ CallDrawFaceRectangle

SpecOverlay == Init /\ [][NextOverlay]_vars

(***************************************************************************)
(* C11  No-face rendering.  write_label always draws the label at          *)
(* (x+10, y-10); for the no-face label it draws, before that, the          *)
(* uppercased label at the geometric centre of the frame it is given,      *)
(* whatever (x, y); for any other label it makes that one draw only.       *)
(***************************************************************************)
NoFaceRendering ==
  overlay.op = "write_label" =>
    LET corner == <<"putText", overlay.label, <<overlay.x + 10, overlay.y - 10>> >>
        centre == <<overlay.size[1] \div 2, overlay.size[2] \div 2>>
    IN IF overlay.label = NO_FACE_LABEL
         THEN overlay.draws = << <<"putText", Upper(overlay.label), centre>>, corner >>
         ELSE overlay.draws = << corner >>

(***************************************************************************)
(* C13  Geometry.  BoundingBox(x, y, w, h) has origin (x, y), top-right x  *)
(* equal to x + w and bottom-left y equal to y + h, and                    *)
(* draw_face_rectangle draws one rectangle from (x, y) to (x + w, y + h).  *)
(***************************************************************************)
Geometry ==
  overlay.op = "draw_face_rectangle" =>
    /\ bb_origin(overlay.bb) = <<overlay.x, overlay.y>>
    /\ top_right(overlay.bb) = overlay.x + overlay.w
    /\ bottom_left(overlay.bb) = overlay.y + overlay.h
    /\ overlay.draws = << <<"rectangle", <<overlay.x, overlay.y>>,
                            <<overlay.x + overlay.w, overlay.y + overlay.h>> >> >>

GeometryWitness ==
  /\ overlay.op = "draw_face_rectangle"
  /\ overlay.x = 0 - 1
  /\ overlay.y = 2
  /\ overlay.w = 1
  /\ overlay.h = 2
  /\ overlay.draws = << <<"rectangle", <<0 - 1, 2>>, <<0, 4>> >> >>
(***************************************************************************)
(* C12  Absent landmarks.  A face whose landmark set is None gets no       *)
(* marker, a face with a point set gets one marker per point, in order;    *)
(* either way its box and its label are drawn, nothing is raised, and the  *)
(* loop goes on to the next tick.                                          *)
(***************************************************************************)
\* the markers drawn on a frame, in order
Markers(f) == SelectSeq(f.drawn, LAMBDA op : op[1] = "circle")

\* the texts drawn on a frame, in order
Texts(f) == SelectSeq(f.drawn, LAMBDA op : op[1] = "putText")

\* the points of the landmark sets of entries 1..n, absent sets skipped
RECURSIVE PointsUpTo(_, _)
PointsUpTo(entries, n) ==
  IF n = 0 THEN <<>>
  ELSE PointsUpTo(entries, n - 1) \o
       (IF entries[n][3] = None THEN <<>> ELSE CHOOSE ps \in entries[n][3] : TRUE)

AbsentLandmark(f) == \E i \in 1..Len(f.entries) : f.entries[i][3] = None

AbsentLandmarks ==
  /\ LET pts == PointsUpTo(frame.entries, Len(frame.entries))
     IN /\ Len(Markers(frame)) = Len(pts)
        /\ \A i \in 1..Len(pts) : Markers(frame)[i] = <<"circle", pts[i]>>
  /\ Len(Boxes(frame)) = Len(frame.entries)
  /\ \A i \in 1..Len(frame.entries) :
       \E j \in 1..Len(Texts(frame)) :
         Texts(frame)[j] = <<"putText", frame.entries[i][1],
                             <<frame.entries[i][2][1] + 10, frame.entries[i][2][2] - 10>> >>
  /\ pc = "raised" => (CaptureFailed \/ ClassifierRaised)
  /\ AbsentLandmark(frame) /\ pc \in {"render", "imshow"} => ENABLED Next
  /\ pc = "imshow" /\ frame.ok =>
       frame.entries = zip(predicted_labels, rectangles, landmark_points_list)

AbsentLandmarksWitness ==
  /\ pc = "read_frame"
  /\ shown.id = tick - 1
  /\ Len(shown.entries) = 1
  /\ shown.entries[1][3] = None
  /\ Len(Boxes(shown)) = 1
  /\ Len(Markers(shown)) = 0
  /\ Len(Texts(shown)) >= 1
(***************************************************************************)
(* C14  Tick ordering, as claimed.  The quit key is polled only after the  *)
(* frame of the tick has been displayed, so that no poll is made before    *)
(* the first frame has been acquired and displayed: polls never outnumber  *)
(* the frames displayed.                                                   *)
(***************************************************************************)
PollAfterDisplay == polls <= displayed

(***************************************************************************)
(* C14  Tick ordering, as the loop runs.  Every iteration polls the        *)
(* keyboard once and first, then acquires, decides and classifies,         *)
(* renders, displays; every poll but the first follows the display of the  *)
(* previous frame, and the first poll precedes the first frame.            *)
(***************************************************************************)
InBody == pc \in {"due", "transform_img", "classify", "extract_face_rectangle",
                  "extract_landmark_points", "render", "imshow"}

CallOrder == <<"read_frame", "transform_img", "classify", "extract_face_rectangle",
               "extract_landmark_points">>

TickOrder ==
  /\ pc = "waitKey" =>
       /\ polls = tick /\ displayed = tick
       /\ tick > 0 => shown.id = tick /\ shown = frame
  /\ pc = "read_frame" =>
       /\ polls = tick /\ displayed = tick - 1
       /\ frame.id = tick - 1 /\ calls = <<>>
  /\ InBody =>
       /\ polls = tick /\ displayed = tick - 1 /\ shown.id = tick - 1
       /\ frame.id = tick
       /\ calls /= <<>>
  /\ pc \in {"due", "transform_img", "classify", "extract_face_rectangle",
              "extract_landmark_points"} => frame.drawn = <<>>
  /\ pc \in {"destroyAllWindows", "release", "done"} =>
       polls = tick + 1 /\ displayed = tick
  /\ pc = "raised" => polls = tick /\ displayed = tick - 1
  /\ Len(calls) <= Len(CallOrder)
  /\ \A i \in 1..Len(calls) : calls[i][1] = CallOrder[i]

TickOrderWitness ==
  /\ pc = "destroyAllWindows"
  /\ quit_seen
  /\ polls = 1
  /\ tick = 0
  /\ displayed = 0
  /\ frame = NoFrame
(***************************************************************************)
(* C15  Classifier input.  On a due tick transform_img runs once on the    *)
(* tick's frame and classify, extract_face_rectangle and                   *)
(* extract_landmark_points are each called once, in that order, all three  *)
(* on the same image; on any other tick none of the four is called.        *)
(***************************************************************************)
ClassifierInput ==
  PastClassification =>
    IF lastClassTick = tick
      THEN /\ Len(calls) = 5
           /\ calls[2] = <<"transform_img", tick>>
           /\ calls[3][1] = "classify"
           /\ calls[4][1] = "extract_face_rectangle"
           /\ calls[5][1] = "extract_landmark_points"
           /\ \A i \in 3..5 : calls[i][3] = tick
           /\ calls[3][2] = calls[4][2]
           /\ calls[4][2] = calls[5][2]
      ELSE calls = << <<"read_frame", tick>> >>
(***************************************************************************)
(* C16  Render order.  On every tick the draws on the tick's frame are,    *)
(* for the entries of the annotation set in sequence order, the box, then  *)
(* the landmarks, then the label of each entry, and the frame handed to    *)
(* imshow is that tick's frame with all entries drawn.                     *)
(***************************************************************************)
\* box, landmarks, label of the entries 1..n, entry after entry
RECURSIVE DrawsUpTo(_, _)
DrawsUpTo(entries, n) ==
  IF n = 0 THEN <<>>
  ELSE LET e == entries[n]
       IN DrawsUpTo(entries, n - 1)
          \o << <<"rectangle", <<e[2][1], e[2][2]>>,
                  <<e[2][1] + e[2][3], e[2][2] + e[2][4]>> >> >>
          \o draw_landmark_points(e[3])
          \o write_label(e[2][1], e[2][2], e[1])

RenderOrder ==
  /\ frame.drawn = DrawsUpTo(frame.entries, Len(frame.entries))
  /\ InBody => frame.id = tick
  /\ pc = "render" =>
       frame.entries = SubSeq(zip(predicted_labels, rectangles, landmark_points_list),
                              1, idx - 1)
  /\ pc = "imshow" =>
       frame.entries = zip(predicted_labels, rectangles, landmark_points_list)
  /\ pc = "waitKey" /\ tick > 0 =>
       /\ shown = frame
       /\ shown.id = tick
       /\ shown.ok
       /\ shown.entries = zip(predicted_labels, rectangles, landmark_points_list)

RenderOrderWitness ==
  /\ pc = "waitKey"
  /\ tick = period_ticks + 1
  /\ Len(shown.entries) = 2
  /\ Len(shown.drawn) = 7
  /\ shown.drawn[1][1] = "rectangle"
  /\ shown.drawn[2][1] = "circle"
  /\ shown.drawn[3][1] = "putText"
(***************************************************************************)
(* execute() called with other periods: frame_period_s * 100 equal to 1,   *)
(* 1.5, 2, 2.5 and 3 ticks, and a classifier with one fixed answer.        *)
(***************************************************************************)
Periods == { <<1, 100>>, <<3, 200>>, <<1, 50>>, <<1, 40>>, <<3, 100>> }

InitPeriods == \E period \in Periods : InitWith(period)

NextPeriods ==
  \/ WaitKeyQuit
  \/ WaitKeyOther(MaxPeriodTicks)
  \/ \E ok \in BOOLEAN : ReadFrame(ok)
  \/ Decide
  \/ TransformImg
  \/ \E labels \in StubLabels : Classify(labels)
  \/ ClassifyRaise
  \/ \E rects \in StubRects : ExtractFaceRectangle(rects)
  \/ ExtractFaceRectangleRaise
  \/ \E lms \in StubLandmarks : ExtractLandmarkPoints(lms)
  \/ ExtractLandmarkPointsRaise
  \/ RenderEntry
  \/ RenderDone
  \/ Imshow
  \/ DestroyAllWindows
  \/ Release

SpecPeriods == InitPeriods /\ [][NextPeriods]_vars

\* P = frame_period_s * 100 as a fraction, and whether it is a whole number >= 1
PNum(p) == p[1] * 100
PDen(p) == p[2]
IntegerPeriod(p) == PNum(p) % PDen(p) = 0 /\ PNum(p) >= PDen(p)

\* Python's round(P): to the nearest integer, a tie to the even one
Round(p) ==
  LET lo == PNum(p) \div PDen(p)
      rem == PNum(p) % PDen(p)
  IN IF 2 * rem < PDen(p) THEN lo
     ELSE IF 2 * rem > PDen(p) THEN lo + 1
     ELSE IF lo % 2 = 0 THEN lo ELSE lo + 1

(***************************************************************************)
(* C17  Period derivation.  A classification is due on exactly the ticks   *)
(* where frame_cnt mod round(P) = 0, P = frame_period_s * 100, also when P *)
(* is not a whole number.                                                  *)
(***************************************************************************)
PeriodDerivationStep ==
  pc = "due" => (pc' = "transform_img" <=> frame_cnt % Round(frame_period_s) = 0)

PeriodDerivation == [][PeriodDerivationStep]_vars

(***************************************************************************)
(* C19  Counter bound.  For a whole number of ticks P >= 1, once a tick    *)
(* has decided, frame_cnt is in 0 .. P-1 and is the number of ticks since  *)
(* the last classification, or since loop start; classifications are P     *)
(* ticks apart.                                                            *)
(***************************************************************************)
CounterBound ==
  IntegerPeriod(frame_period_s) =>
    LET P == PNum(frame_period_s) \div PDen(frame_period_s)
    IN /\ frame_cnt \in 0..P
       /\ PastDecide => frame_cnt \in 0..(P - 1) /\ frame_cnt = tick - last_reset
       /\ PastClassification => frame_cnt = tick - lastClassTick
       /\ last_reset % P = 0
       /\ lastClassTick % P = 0
       /\ PastClassification /\ tick % P = 0 => lastClassTick = tick

CounterBoundWitness ==
  /\ frame_period_s = <<3, 100>>
  /\ pc = "waitKey"
  /\ tick = 11
  /\ lastClassTick = 9
  /\ frame_cnt = 2
(***************************************************************************)
(* C18  Loop start.  Until the first due tick the annotation set is empty: *)
(* nothing is drawn, no record is printed, the frames are displayed as     *)
(* read; the placeholder rectangle and landmark of loop start are never    *)
(* part of a rendered entry.                                               *)
(***************************************************************************)
LoopStart ==
  /\ lastClassTick = 0 /\ tick < period_ticks =>
       /\ zip(predicted_labels, rectangles, landmark_points_list) = <<>>
       /\ frame.drawn = <<>> /\ frame.entries = <<>>
       /\ shown.drawn = <<>> /\ shown.entries = <<>>
       /\ log = <<>>
       /\ old_txt = None
       /\ pc = "waitKey" /\ tick > 0 => shown.ok /\ shown.id = tick /\ displayed = tick
  /\ frame.entries /= <<>> => origin.rectangles > 0 /\ origin.landmarks > 0
  /\ shown.entries /= <<>> => origin.rectangles > 0 /\ origin.landmarks > 0

LoopStartWitness ==
  /\ pc = "waitKey"
  /\ tick = period_ticks - 1
  /\ displayed = tick
  /\ shown.ok
  /\ shown.id = tick
  /\ shown.drawn = <<>>
  /\ rectangles = <<R0>>
====
